---- MODULE Spec2Model ----
(***************************************************************************)
(* The image subsystem of the stock-management frontend:                   *)
(*   - loadImage   (frontend/src/imageHandler.ts): fetch through the       *)
(*     backend proxy with a per-attempt abort timer, one retry with        *)
(*     backoff and validation of the response;                             *)
(*   - ImageDisplay (ImageDisplay.tsx): the React component that owns one  *)
(*     image slot, starts a load in an effect on every change of           *)
(*     imagePath and commits the result unless its effect was cleaned up.  *)
(*                                                                         *)
(* JavaScript runs one task at a time, so every action below is the code   *)
(* that runs between two awaits.  Strings are sequences of one-character   *)
(* strings, so that template formatting, trim(), startsWith() and          *)
(* includes() are computed the way the code computes them.  Time is kept   *)
(* as countdown timers: a timer fires when its remaining time is 0 and     *)
(* time does not pass an armed timer that is due.                          *)
(***************************************************************************)
EXTENDS Integers, Sequences, FiniteSets, TLC

VARIABLES
    call,           \* call[i]: the i-th invocation of loadImage (its locals)
    urls,           \* the browser's object-URL registry (URL.createObjectURL)
    mounted,        \* "no" (not rendered yet), "yes", "gone" (unmounted)
    imagePath,      \* the imagePath prop of ImageDisplay
    imageUrl,       \* useState imageUrl  (0 is null)
    isLoading,      \* useState isLoading
    error,          \* useState error     (Null is null)
    renderFailed,   \* useState renderFailed
    effects,        \* effects[e]: the closure of the e-th run of the effect
    gen,            \* number of runs of the effect so far
    notified        \* the calls made to the onLoad / onError props, in order

vars == <<call, urls, mounted, imagePath, imageUrl, isLoading, error,
          renderFailed, effects, gen, notified>>

displayVars == <<mounted, imagePath, imageUrl, isLoading, error,
                 renderFailed, effects, gen, notified>>

----------------------------------------------------------------------------
(* Bounds of the model *)

\* runs of the effect (mount plus path changes) explored per behaviour
MaxEffects == 3
\* largest response body, in bytes
MaxBody == 1
\* granularity of the passage of time, in ms
TimeStep == 5000

----------------------------------------------------------------------------
(* Constants of imageHandler.ts *)

IMAGE_RETRY_ATTEMPTS == 2
IMAGE_RETRY_DELAY == 500
IMAGE_LOAD_TIMEOUT == 10000

Attempts == 1..IMAGE_RETRY_ATTEMPTS
Off == -1
\* attempts are watched a little beyond the timeout, then the clock saturates
MaxElapsed == IMAGE_LOAD_TIMEOUT + TimeStep

----------------------------------------------------------------------------
(* Strings *)

Null == <<"null">>
Undefined == <<"undefined">>

MsgNoPath == <<"N", "o", " ", "i", "m", "a", "g", "e", " ", "p", "a", "t", "h", " ", "p", "r", "o", "v", "i", "d", "e", "d">>
MsgHtml == <<"S", "e", "r", "v", "e", "r", " ", "r", "e", "t", "u", "r", "n", "e", "d", " ", "H", "T", "M", "L", " ", "i", "n", "s", "t", "e", "a", "d", " ", "o", "f", " ", "i", "m", "a", "g", "e">>
MsgEmpty == <<"E", "m", "p", "t", "y", " ", "r", "e", "s", "p", "o", "n", "s", "e", " ", "r", "e", "c", "e", "i", "v", "e", "d">>
MsgUnknown == <<"U", "n", "k", "n", "o", "w", "n", " ", "e", "r", "r", "o", "r">>
MsgFailed == <<"F", "a", "i", "l", "e", "d", " ", "t", "o", " ", "l", "o", "a", "d", " ", "i", "m", "a", "g", "e">>
HttpPrefix == <<"H", "T", "T", "P", " ">>
ColonSpace == <<":", " ">>
Needle404 == <<"4", "0", "4">>
NeedleHtml == <<"H", "T", "M", "L", " ", "i", "n", "s", "t", "e", "a", "d">>
TextHtml == <<"t", "e", "x", "t", "/", "h", "t", "m", "l">>

\* values the transport can put into a response
ImagePng == <<"i", "m", "a", "g", "e", "/", "p", "n", "g">>
NotFound == <<"N", "o", "t", " ", "F", "o", "u", "n", "d">>
Upstream404 == <<"u", "p", "s", "t", "r", "e", "a", "m", " ", "4", "0", "4">>
\* messages of the errors the browser rejects fetch() and blob() with
MsgFetchFailed == <<"F", "a", "i", "l", "e", "d", " ", "t", "o", " ", "f", "e", "t", "c", "h">>
MsgAborted == <<"T", "h", "e", " ", "o", "p", "e", "r", "a", "t", "i", "o", "n", " ", "w", "a", "s", " ", "a", "b", "o", "r", "t", "e", "d", ".">>

Whitespace == {" ", "\t", "\n"}

\* String.prototype.includes
Includes(s, sub) ==
    \E k \in 0..(Len(s) - Len(sub)) : SubSeq(s, k + 1, k + Len(sub)) = sub

\* String.prototype.startsWith
StartsWith(s, pre) ==
    Len(s) >= Len(pre) /\ SubSeq(s, 1, Len(pre)) = pre

\* String.prototype.trim
RECURSIVE TrimLeft(_)
TrimLeft(s) ==
    IF s # <<>> /\ Head(s) \in Whitespace THEN TrimLeft(Tail(s)) ELSE s

RECURSIVE TrimRight(_)
TrimRight(s) ==
    IF s # <<>> /\ s[Len(s)] \in Whitespace
    THEN TrimRight(SubSeq(s, 1, Len(s) - 1)) ELSE s

Trim(s) == TrimRight(TrimLeft(s))

\* the decimal digits of a number, as template interpolation prints it
RECURSIVE Digits(_)
Digits(n) ==
    LET d == <<"0", "1", "2", "3", "4", "5", "6", "7", "8", "9">>[(n % 10) + 1]
    IN IF n < 10 THEN <<d>> ELSE Digits(n \div 10) \o <<d>>

\* !x for a string-or-null
Falsy(s) == s = Null \/ s = <<>>

----------------------------------------------------------------------------
(* The transport: what fetch() and response.blob() can produce *)

Statuses == {200, 404, 500}
StatusTexts == {<<>>, NotFound, Upstream404}
ContentTypes == {Null, ImagePng, TextHtml}
BodyFates == {"ok", "error"}

\* a response: its head, and what reading its body will give
Responses ==
    [status : Statuses, statusText : StatusTexts, contentType : ContentTypes,
     body : 0..MaxBody, fate : BodyFates]

NoResp == [status |-> 0, statusText |-> <<>>, contentType |-> Null,
           body |-> 0, fate |-> "none"]

\* thrown values: isError is `instanceof Error`
NetworkError == [isError |-> TRUE, message |-> MsgFetchFailed]
AbortError == [isError |-> TRUE, message |-> MsgAborted]
Err(msg) == [isError |-> TRUE, message |-> msg]

\* Response.ok
Ok(status) == status >= 200 /\ status <= 299

----------------------------------------------------------------------------
(* loadImage *)

PathInputs ==
    {Null, <<>>, <<" ">>, <<"a">>, <<"/", "a">>, <<"/", "/", "a">>}

NoResult == [success |-> FALSE, url |-> 0, error |-> Undefined]

NoCall ==
    [pc |-> "none", arg |-> Null, url |-> <<>>, requested |-> {},
     attempt |-> 0,
     lastError |-> <<>>,
     errs |-> <<>>, timer |-> [k \in Attempts |-> Off], sleepLeft |-> Off,
     resp |-> NoResp, requests |-> 0, elapsed |-> 0, sinceFail |-> 0,
     backoff |-> 0, sleeps |-> 0, result |-> NoResult, thrown |-> Undefined]

\* a variant that strips every leading '/' (replace(/^\/+/, ''))
CleanPathAllSlashes(p) ==
    LET n == Cardinality({j \in 1..Len(p) : \A m \in 1..j : p[m] = "/"})
    IN SubSeq(p, n + 1, Len(p))

\* lines 52-54: the path put after {BASE_URL}/image-proxy/
CleanPath(p) == IF StartsWith(p, <<"/">>) THEN SubSeq(p, 2, Len(p)) ELSE p

\* constants/index.ts line 5, without VITE_BACKEND_URL: '/api'
BASE_URL == <<"/", "a", "p", "i">>

ImageProxy ==
    <<"/", "i", "m", "a", "g", "e", "-", "p", "r", "o", "x", "y", "/">>

\* line 56: `${API_CONFIG.BASE_URL}/image-proxy/${cleanPath}`
ProxiedUrl(p) == BASE_URL \o ImageProxy \o CleanPath(p)

\* lines 61-68: a new controller, its abort timer, and the request
StartAttempt(c, k) ==
    [c EXCEPT !.pc = "fetch", !.attempt = k,
              !.timer[k] = IMAGE_LOAD_TIMEOUT,
              !.resp = NoResp, !.requests = @ + 1,
              !.requested = @ \cup {c.url}, !.elapsed = 0,
              !.backoff = IF k > 1 THEN c.sinceFail ELSE 0]

\* line 111
ReturnFailure(c) ==
    [c EXCEPT !.pc = "returned",
              !.result = [success |-> FALSE, url |-> 0,
                          error |-> IF c.lastError # <<>> THEN c.lastError
                                    ELSE MsgFailed]]

\* line 95
ErrorMessage(e) == IF e.isError THEN e.message ELSE MsgUnknown

\* line 101: the errors after which no further attempt is made
Definitive(errorMsg) ==
    Includes(errorMsg, Needle404) \/ Includes(errorMsg, NeedleHtml)

\* a variant that keeps the message of the first failed attempt
SetLastErrorKeepFirst(c, errorMsg) ==
    IF c.lastError = <<>> THEN [c EXCEPT !.lastError = errorMsg] ELSE c

\* line 96
SetLastError(c, errorMsg) == [c EXCEPT !.lastError = errorMsg]

\* a variant whose backoff is IMAGE_RETRY_DELAY * (attempt - 1)
CatchShortBackoff(c, e) ==
    LET errorMsg == ErrorMessage(e)
        c1 == [SetLastError(c, errorMsg) EXCEPT !.errs = Append(@, errorMsg)]
    IN IF Definitive(errorMsg) THEN ReturnFailure(c1)
       ELSE IF c.attempt < IMAGE_RETRY_ATTEMPTS
            THEN [c1 EXCEPT !.pc = "sleep",
                            !.sleepLeft = IMAGE_RETRY_DELAY * (c.attempt - 1),
                            !.sinceFail = 0, !.sleeps = @ + 1]
            ELSE ReturnFailure(c1)

\* lines 94-108, and the exit of the loop to line 111
Catch(c, e) ==
    LET errorMsg == ErrorMessage(e)
        \* errs records the message of every failed attempt, in order
        c1 == [SetLastError(c, errorMsg) EXCEPT !.errs = Append(@, errorMsg)]
    IN IF Definitive(errorMsg) THEN ReturnFailure(c1)
       ELSE IF c.attempt < IMAGE_RETRY_ATTEMPTS
            THEN [c1 EXCEPT !.pc = "sleep",
                            !.sleepLeft = IMAGE_RETRY_DELAY * c.attempt,
                            !.sinceFail = 0, !.sleeps = @ + 1]
            ELSE ReturnFailure(c1)

\* a variant whose try block ends before `await response.blob()`
TryBlockBeforeBlob == {"fetch", "status", "contentType"}

\* the places of lines 60-93 where a value can be thrown
TryBlock == {"fetch", "status", "contentType", "blob", "size"}

\* a throw at `site`: caught at line 94 inside the try block, and otherwise
\* the promise of loadImage rejects
Throw(c, site, e) ==
    IF site \in TryBlock THEN Catch(c, e)
    ELSE [c EXCEPT !.pc = "rejected", !.thrown = ErrorMessage(e)]

\* line 73
HttpMessage(r) ==
    HttpPrefix \o Digits(r.status) \o ColonSpace \o r.statusText

\* line 76
ContentTypeOf(r) == IF Falsy(r.contentType) THEN <<>> ELSE r.contentType

\* a variant that looks at the content type before the status
HeadCheckHtmlFirst(r) ==
    IF Includes(ContentTypeOf(r), TextHtml)
    THEN [site |-> "contentType", e |-> Err(MsgHtml)]
    ELSE IF ~Ok(r.status) THEN [site |-> "status", e |-> Err(HttpMessage(r))]
         ELSE [site |-> "none", e |-> Err(<<>>)]

\* lines 70-83: the checks made on the head of the response
HeadCheck(r) ==
    IF ~Ok(r.status) THEN [site |-> "status", e |-> Err(HttpMessage(r))]
    ELSE IF Includes(ContentTypeOf(r), TextHtml)
         THEN [site |-> "contentType", e |-> Err(MsgHtml)]
         ELSE [site |-> "none", e |-> Err(<<>>)]

\* a variant without the trim() of line 48
LoadImageNoTrim(p) ==
    IF Falsy(p)
    THEN [NoCall EXCEPT !.pc = "returned", !.arg = p,
                        !.result = [success |-> FALSE, url |-> 0,
                                    error |-> MsgNoPath]]
    ELSE StartAttempt([NoCall EXCEPT !.arg = p, !.url = ProxiedUrl(p)], 1)

\* a variant with a cache of the paths loaded before, as in the former
\* version of the module
LoadImageCached(p) ==
    IF Falsy(p) \/ Trim(p) = <<>>
    THEN [NoCall EXCEPT !.pc = "returned", !.arg = p,
                        !.result = [success |-> FALSE, url |-> 0,
                                    error |-> MsgNoPath]]
    ELSE IF \E j \in DOMAIN call : call[j].arg = p /\ call[j].result.success
    THEN LET j == CHOOSE j \in DOMAIN call :
                      call[j].arg = p /\ call[j].result.success
         IN [NoCall EXCEPT !.pc = "returned", !.arg = p,
                           !.result = call[j].result]
    ELSE StartAttempt([NoCall EXCEPT !.arg = p, !.url = ProxiedUrl(p)], 1)

\* lines 47-68: the synchronous start of loadImage
LoadImage(p) ==
    IF Falsy(p) \/ Trim(p) = <<>>
    THEN [NoCall EXCEPT !.pc = "returned", !.arg = p,
                        !.result = [success |-> FALSE, url |-> 0,
                                    error |-> MsgNoPath]]
    ELSE StartAttempt([NoCall EXCEPT !.arg = p, !.url = ProxiedUrl(p)], 1)

CallIds == 1..MaxEffects

\* a variant without the size check of line 85
EmptyBlobNever(size) == FALSE

\* line 85
EmptyBlob(size) == size = 0

\* a variant that makes the URL of a new, empty Blob
CreateObjectURLOfNewBlob(reg, blob) == Append(reg, [blob |-> 0, revoked |-> 0])

\* line 90: URL.createObjectURL(blob); the URL is the index in the registry
CreateObjectURL(reg, blob) == Append(reg, [blob |-> blob, revoked |-> 0])

\* lines 64-83: fetch() resolves with the head of a response
FetchResolves(i, r) ==
    /\ call[i].pc = "fetch"
    /\ LET c == [call[i] EXCEPT !.timer[call[i].attempt] = Off, !.resp = r]
           chk == HeadCheck(r)
       IN call' = [call EXCEPT ![i] =
                      IF chk.site # "none" THEN Throw(c, chk.site, chk.e)
                      ELSE [c EXCEPT !.pc = "blob"]]
    /\ UNCHANGED <<urls, displayVars>>

\* line 64: fetch() rejects because the request failed
FetchRejects(i) ==
    /\ call[i].pc = "fetch"
    /\ call' = [call EXCEPT ![i] = Throw(call[i], "fetch", NetworkError)]
    /\ UNCHANGED <<urls, displayVars>>

\* a variant that makes the object URL before it looks at blob.size
BlobResolvesUrlFirst(i) ==
    /\ call[i].pc = "blob"
    /\ call[i].resp.fate = "ok"
    /\ LET c == call[i]
           size == c.resp.body
       IN /\ urls' = CreateObjectURL(urls, size)
          /\ IF EmptyBlob(size)
             THEN call' = [call EXCEPT ![i] = Throw(c, "size", Err(MsgEmpty))]
             ELSE call' = [call EXCEPT ![i] =
                              [c EXCEPT !.pc = "returned",
                                        !.result = [success |-> TRUE,
                                                    url |-> Len(urls) + 1,
                                                    error |-> Undefined]]]
    /\ UNCHANGED displayVars

\* lines 83-92: response.blob() resolves with the whole body
BlobResolves(i) ==
    /\ call[i].pc = "blob"
    /\ call[i].resp.fate = "ok"
    /\ LET c == call[i]
           size == c.resp.body
       IN IF EmptyBlob(size)
          THEN /\ call' = [call EXCEPT ![i] = Throw(c, "size", Err(MsgEmpty))]
               /\ UNCHANGED urls
          ELSE /\ urls' = CreateObjectURL(urls, size)
               /\ call' = [call EXCEPT ![i] =
                              [c EXCEPT !.pc = "returned",
                                        !.result = [success |-> TRUE,
                                                    url |-> Len(urls) + 1,
                                                    error |-> Undefined]]]
    /\ UNCHANGED displayVars

\* line 83: response.blob() rejects because the body could not be read
BlobRejects(i) ==
    /\ call[i].pc = "blob"
    /\ call[i].resp.fate = "error"
    /\ call' = [call EXCEPT ![i] = Throw(call[i], "blob", NetworkError)]
    /\ UNCHANGED <<urls, displayVars>>

\* line 62: the abort timer of attempt k fires and aborts that attempt's
\* controller; a request of another attempt has another controller
TimeoutFires(i, k) ==
    /\ call[i].timer[k] = 0
    /\ LET c == [call[i] EXCEPT !.timer[k] = Off]
       IN call' = [call EXCEPT ![i] =
                      IF k = c.attempt /\ c.pc \in {"fetch", "blob"}
                      THEN Throw(c, c.pc, AbortError)
                      ELSE c]
    /\ UNCHANGED <<urls, displayVars>>

\* lines 106, 59: the backoff is over and the next attempt starts
SleepDone(i) ==
    /\ call[i].pc = "sleep"
    /\ call[i].sleepLeft = 0
    /\ call' = [call EXCEPT ![i] =
                   StartAttempt([call[i] EXCEPT !.sleepLeft = Off],
                                call[i].attempt + 1)]
    /\ UNCHANGED <<urls, displayVars>>

----------------------------------------------------------------------------
(* Time *)

Min(S) == CHOOSE x \in S : \A y \in S : x <= y

Armed(c) ==
    {c.timer[k] : k \in {a \in Attempts : c.timer[a] # Off}}
        \cup (IF c.sleepLeft # Off THEN {c.sleepLeft} ELSE {})

InProgress(c) == c.pc \in {"fetch", "blob"}

Advance(c, d) ==
    [c EXCEPT !.timer = [k \in Attempts |->
                            IF c.timer[k] = Off THEN Off ELSE c.timer[k] - d],
              !.sleepLeft = IF @ = Off THEN Off ELSE @ - d,
              !.sinceFail = IF c.pc = "sleep" THEN @ + d ELSE @,
              !.elapsed = IF InProgress(c)
                          THEN (IF @ + d > MaxElapsed THEN MaxElapsed ELSE @ + d)
                          ELSE @]

\* time passes, up to the next timer that is due
Tick ==
    LET due == UNION {Armed(call[i]) : i \in CallIds}
        d == Min(due \cup {TimeStep})
    IN /\ d > 0
       /\ \/ due # {}
          \/ \E i \in CallIds : InProgress(call[i]) /\ call[i].elapsed < MaxElapsed
       /\ call' = [i \in CallIds |-> Advance(call[i], d)]
       /\ UNCHANGED <<urls, displayVars>>

----------------------------------------------------------------------------
(* A caller that uses loadImage directly, without the component *)

DirectCall(p) ==
    /\ mounted = "no"
    /\ gen = 0
    /\ call[1].pc = "none"
    /\ call' = [call EXCEPT ![1] = LoadImage(p)]
    /\ UNCHANGED <<urls, displayVars>>

----------------------------------------------------------------------------
(* ImageDisplay *)

MsgNoImage == <<"N", "o", " ", "i", "m", "a", "g", "e", " ", "p", "r", "o", "v", "i", "d", "e", "d">>
MsgNoImagePath == <<"N", "o", " ", "i", "m", "a", "g", "e", " ", "p", "a", "t", "h">>
MsgRender == <<"I", "m", "a", "g", "e", " ", "f", "a", "i", "l", "e", "d", " ", "t", "o", " ", "r", "e", "n", "d", "e", "r">>

\* the paths the parent passes as imagePath
DisplayPaths == {Null, <<>>, <<" ">>, <<"a">>, <<"/", "a">>}

\* the responses the transport gives to the loads of the component: an
\* image, an empty body, or a 404
DisplayResponses ==
    {r \in Responses : /\ r.statusText = <<>>
                       /\ r.contentType = ImagePng
                       /\ r.status \in {200, 404}
                       /\ r.body <= 1
                       /\ r.fate = "ok"}

\* the showPlaceholder prop (line 65: its default)
showPlaceholder == TRUE

\* what a callback prop (onLoad, onError) throws when it fails
MsgCallback == <<"c", "a", "l", "l", "b", "a", "c", "k", " ", "f", "a", "i", "l", "e", "d">>
CallbackError == Err(MsgCallback)

\* line 114
CaughtMessage(err) == IF err.isError THEN err.message ELSE MsgUnknown

\* discarded records that the result of the effect's load arrived after the
\* cleanup of the effect, threw that the callback the effect or its load
\* called first has thrown
NoEffect == [isMounted |-> FALSE, currentUrl |-> 0, cleanup |-> FALSE,
             discarded |-> FALSE, threw |-> FALSE]

\* a call of onLoad or onError, as the parent sees it
Notify(cb, arg, e) == [cb |-> cb, arg |-> arg, effect |-> e]

\* URL.revokeObjectURL
Revoke(reg, u) == [reg EXCEPT ![u].revoked = @ + 1]

\* a call whose result the component has taken
Done(c) == [NoCall EXCEPT !.pc = "done", !.arg = c.arg,
                          !.result = c.result, !.timer = c.timer]

\* a variant without the isMounted flag (every result is committed)
StaleNever(e) == FALSE

\* lines 96, 113, 118: the effect that started the load was cleaned up
Stale(e) == ~effects[e].isMounted

\* a variant of the cleanup that forgets isMounted = false
CleanupKeepsMounted(eff, e) == eff

\* lines 127-132: the cleanup of the effect run e, if one was registered
Cleanup(eff, e) ==
    IF e >= 1 /\ eff[e].cleanup
    THEN [eff EXCEPT ![e].isMounted = FALSE]
    ELSE eff

\* a variant of the cleanup that forgets URL.revokeObjectURL
CleanupUrlsNone(reg, eff, e) == reg

\* lines 129-131: the URL the cleanup of the effect run e revokes
CleanupUrls(reg, eff, e) ==
    IF e >= 1 /\ eff[e].cleanup /\ eff[e].currentUrl # 0
    THEN Revoke(reg, eff[e].currentUrl)
    ELSE reg

\* lines 72-125: the body of the effect, run e, for the path p; eff and reg
\* are the closures and the URL registry after the previous cleanup, and
\* throws tells whether the onError of line 87 throws: an error thrown by
\* an effect makes React remove the component
RunEffect(e, p, throws, eff, reg) ==
    /\ gen' = e
    /\ imagePath' = p
    /\ imageUrl' = 0
    /\ renderFailed' = FALSE
    /\ urls' = reg
    /\ IF Falsy(p)
       THEN /\ isLoading' = FALSE
            /\ error' = MsgNoImage
            /\ notified' = Append(notified, Notify("onError", MsgNoImagePath, e))
            /\ effects' = [eff EXCEPT ![e] = [NoEffect EXCEPT !.isMounted = TRUE,
                                                               !.threw = throws]]
            /\ mounted' = IF throws THEN "gone" ELSE "yes"
            /\ UNCHANGED call
       ELSE /\ ~throws
            /\ isLoading' = TRUE
            /\ error' = Null
            /\ call' = [call EXCEPT ![e] = LoadImage(p)]
            /\ effects' = [eff EXCEPT ![e] = [NoEffect EXCEPT !.isMounted = TRUE,
                                                               !.cleanup = TRUE]]
            /\ mounted' = "yes"
            /\ UNCHANGED notified

\* the first render, and the effect after it
Mount(p, throws) ==
    /\ mounted = "no"
    /\ call[1].pc = "none"
    /\ RunEffect(1, p, throws, effects, urls)

\* a render with another imagePath: the cleanup of the last effect, then
\* the effect again (line 134: the dependency list)
ChangePath(p, throws) ==
    /\ mounted = "yes"
    /\ p # imagePath
    /\ gen < MaxEffects
    /\ RunEffect(gen + 1, p, throws, Cleanup(effects, gen),
                 CleanupUrls(urls, effects, gen))

\* a variant that removes the component without running the cleanup
UnmountNoCleanup ==
    /\ mounted = "yes"
    /\ mounted' = "gone"
    /\ UNCHANGED <<call, urls, imagePath, imageUrl, isLoading, error,
                   renderFailed, effects, gen, notified>>

\* a variant that runs the cleanup of every effect again, the URLs that
\* path changes have revoked included
UnmountRevokesAll ==
    /\ mounted = "yes"
    /\ mounted' = "gone"
    /\ effects' = [e \in CallIds |->
                       IF effects[e].cleanup
                       THEN [effects[e] EXCEPT !.isMounted = FALSE]
                       ELSE effects[e]]
    /\ urls' = [u \in 1..Len(urls) |->
                    IF \E e \in CallIds :
                           effects[e].cleanup /\ effects[e].currentUrl = u
                    THEN [urls[u] EXCEPT !.revoked = @ + 1]
                    ELSE urls[u]]
    /\ UNCHANGED <<call, imagePath, imageUrl, isLoading, error, renderFailed,
                   gen, notified>>

\* the component is removed: the cleanup of the last effect
Unmount ==
    /\ mounted = "yes"
    /\ mounted' = "gone"
    /\ effects' = Cleanup(effects, gen)
    /\ urls' = CleanupUrls(urls, effects, gen)
    /\ UNCHANGED <<call, imagePath, imageUrl, isLoading, error, renderFailed,
                   gen, notified>>

\* a variant that drops a stale result without revoking its URL
DiscardResultKeepsUrl(reg, result) == reg

\* lines 96-99: a stale result is dropped, and its URL revoked
DiscardResult(reg, result) ==
    IF result.url # 0 THEN Revoke(reg, result.url) ELSE reg

\* lines 94-121: loadImg continues after `await loadImage(imagePath)`;
\* throws tells whether the callback it calls first (onLoad on line 106,
\* onError on line 110 or 116) throws. What is thrown inside the try block
\* is caught on line 112; what onError throws inside the catch block
\* leaves loadImg after the finally block.
LoadSettled(e, throws) ==
    /\ call[e].pc \in {"returned", "rejected"}
    /\ effects[e].cleanup
    /\ call' = [call EXCEPT ![e] = Done(call[e])]
    /\ LET result == call[e].result
           caught == CaughtMessage(CallbackError)
       IN IF call[e].pc = "rejected"
          THEN \* lines 112-121
               IF Stale(e)
               THEN /\ ~throws
                    /\ effects' = [effects EXCEPT ![e].discarded = TRUE]
                    /\ UNCHANGED <<urls, imageUrl, isLoading, error,
                                   notified>>
               ELSE /\ error' = call[e].thrown
                    /\ notified' = Append(notified,
                                          Notify("onError", call[e].thrown, e))
                    /\ isLoading' = FALSE
                    /\ effects' = [effects EXCEPT ![e].threw = throws]
                    /\ UNCHANGED <<urls, imageUrl>>
          ELSE IF Stale(e)
          THEN \* lines 96-100
               /\ ~throws
               /\ urls' = DiscardResult(urls, result)
               /\ effects' = [effects EXCEPT ![e].discarded = TRUE]
               /\ UNCHANGED <<imageUrl, isLoading, error, notified>>
          ELSE IF result.success /\ result.url # 0
          THEN \* lines 102-106, then 118-120 or 112-120
               /\ effects' = [effects EXCEPT ![e].currentUrl = result.url,
                                             ![e].threw = throws]
               /\ imageUrl' = result.url
               /\ error' = IF throws THEN caught ELSE Null
               /\ notified' =
                      notified \o <<Notify("onLoad", Undefined, e)>>
                               \o (IF throws
                                   THEN <<Notify("onError", caught, e)>>
                                   ELSE <<>>)
               /\ isLoading' = FALSE
               /\ UNCHANGED urls
          ELSE \* lines 107-111, then 118-120 or 112-120
               LET errorMsg == IF result.error \notin {Undefined, <<>>}
                               THEN result.error ELSE MsgFailed
               IN /\ error' = IF throws THEN caught ELSE errorMsg
                  /\ notified' =
                         notified \o <<Notify("onError", errorMsg, e)>>
                                  \o (IF throws
                                      THEN <<Notify("onError", caught, e)>>
                                      ELSE <<>>)
                  /\ isLoading' = FALSE
                  /\ effects' = [effects EXCEPT ![e].threw = throws]
                  /\ UNCHANGED <<urls, imageUrl>>
    /\ UNCHANGED <<mounted, imagePath, renderFailed, gen>>

\* lines 140-216: what the component renders
View ==
    IF isLoading /\ showPlaceholder THEN "skeleton"
    ELSE IF error # Null \/ renderFailed THEN "error"
    ELSE IF imageUrl # 0 THEN "img"
    ELSE "nothing"

\* a variant that also drops the image on a render failure, without
\* revoking its URL
RenderErrorDropsImage ==
    /\ mounted = "yes"
    /\ View = "img"
    /\ renderFailed' = (IF ~renderFailed THEN TRUE ELSE renderFailed)
    /\ imageUrl' = 0
    /\ UNCHANGED <<call, urls, mounted, imagePath, isLoading, error,
                   effects, gen, notified>>

\* line 181: the text under the icon of the error box
Caption == IF error # Null THEN error ELSE MsgRender

\* lines 187-193: the img element of imageUrl is rendered, or was until a
\* render failure replaced it (an error event of it may still arrive)
ImgRendered ==
    \/ View = "img"
    \/ renderFailed /\ imageUrl # 0 /\ error = Null /\ ~isLoading

\* a variant whose handler flips the flag
RenderErrorToggles ==
    /\ mounted = "yes"
    /\ ImgRendered
    /\ renderFailed' = ~renderFailed
    /\ UNCHANGED <<call, urls, mounted, imagePath, imageUrl, isLoading, error,
                   effects, gen, notified>>

\* lines 194-200: the browser cannot show the image; the event may come
\* more than once for the same img
RenderError ==
    /\ mounted = "yes"
    /\ ImgRendered
    /\ renderFailed' = (IF ~renderFailed THEN TRUE ELSE renderFailed)
    /\ UNCHANGED <<call, urls, mounted, imagePath, imageUrl, isLoading, error,
                   effects, gen, notified>>

----------------------------------------------------------------------------
(* Specifications *)

Init ==
    /\ call = [i \in CallIds |-> NoCall]
    /\ urls = <<>>
    /\ mounted = "no"
    /\ imagePath = Null
    /\ imageUrl = 0
    /\ isLoading = TRUE
    /\ error = Null
    /\ renderFailed = FALSE
    /\ effects = [e \in CallIds |-> NoEffect]
    /\ gen = 0
    /\ notified = <<>>

\* the answers of the transport to the call i, drawn from R
TransportStep(i, R) ==
    \/ \E r \in R : FetchResolves(i, r)
    \/ BlobResolves(i)

\* a single call of loadImage, against every transport and with time passing
LoaderNext ==
    \/ \E p \in PathInputs : DirectCall(p)
    \/ TransportStep(1, Responses)
    \/ FetchRejects(1)
    \/ BlobRejects(1)
    \/ \E k \in Attempts : TimeoutFires(1, k)
    \/ SleepDone(1)
    \/ Tick

LoaderSpec == Init /\ [][LoaderNext]_vars

\* the same call with timers that fire: time passes, a due setTimeout
\* callback runs, a finished sleep resumes the loop. Nothing is assumed of
\* the transport, which may never answer.
LoaderFairSpec ==
    /\ LoaderSpec
    /\ WF_vars(Tick)
    /\ \A k \in Attempts : WF_vars(TimeoutFires(1, k))
    /\ WF_vars(SleepDone(1))

\* the component and its loads, with a transport that answers before any
\* timer of loadImage is due (a load that waits for a timer stays in flight)
Next ==
    \/ \E p \in DisplayPaths, throws \in BOOLEAN : Mount(p, throws)
    \/ \E p \in DisplayPaths, throws \in BOOLEAN : ChangePath(p, throws)
    \/ Unmount
    \/ \E e \in CallIds, throws \in BOOLEAN : LoadSettled(e, throws)
    \/ RenderError
    \/ \E i \in CallIds : TransportStep(i, DisplayResponses)

Spec == Init /\ [][Next]_vars

\* the component with one imagePath that never changes, its load against
\* every transport and with time passing
DisplayNext ==
    \/ \E p \in DisplayPaths, throws \in BOOLEAN : Mount(p, throws)
    \/ Unmount
    \/ \E throws \in BOOLEAN : LoadSettled(1, throws)
    \/ RenderError
    \/ TransportStep(1, Responses)
    \/ FetchRejects(1)
    \/ BlobRejects(1)
    \/ \E k \in Attempts : TimeoutFires(1, k)
    \/ SleepDone(1)
    \/ Tick

\* timers fire, and loadImg resumes when the promise it awaits is settled;
\* nothing is assumed of the transport
DisplayFairSpec ==
    /\ Init /\ [][DisplayNext]_vars
    /\ WF_vars(Tick)
    /\ \A k \in Attempts : WF_vars(TimeoutFires(1, k))
    /\ WF_vars(SleepDone(1))
    /\ WF_vars(\E throws \in BOOLEAN : LoadSettled(1, throws))

----------------------------------------------------------------------------
(* Properties *)

\* what a response means for the attempt that receives it
Is2xx(r) == r.status \in 200..299
DefinitiveResponse(r) ==
    r.status = 404 \/ (Is2xx(r) /\ r.contentType = TextHtml)
GoodImage(r) ==
    r.status = 200 /\ r.contentType = ImagePng /\ r.body > 0 /\ r.fate = "ok"
EmptyImage(r) ==
    r.status = 200 /\ r.contentType = ImagePng /\ r.body = 0 /\ r.fate = "ok"
Blank(p) == p = Null \/ \A k \in 1..Len(p) : p[k] \in Whitespace
Failed(c) == c.pc = "returned" /\ ~c.result.success

\* C1: a result of loadImage that arrives after imagePath has changed is
\* not applied: while the component is mounted, imageUrl, error and
\* isLoading are those of the load started for the current imagePath alone
\* (loading while it is in flight, its url or its error once it has arrived).
C1_StaleResultDiscarded ==
    mounted = "yes" =>
        LET c == call[gen]
        IN IF Falsy(imagePath)
           THEN imageUrl = 0 /\ ~isLoading /\ error = MsgNoImage
           ELSE IF c.pc = "done"
           THEN IF c.result.success
                THEN /\ imageUrl = c.result.url
                     /\ error = (IF effects[gen].threw THEN MsgCallback
                                 ELSE Null)
                     /\ ~isLoading
                ELSE /\ imageUrl = 0
                     /\ error = (IF effects[gen].threw THEN MsgCallback
                                 ELSE c.result.error)
                     /\ ~isLoading
           ELSE imageUrl = 0 /\ error = Null /\ isLoading

\* the load of A succeeded after the change to B, and B is displayed
C1_Witness ==
    /\ mounted = "yes"
    /\ gen >= 2
    /\ effects[gen - 1].discarded
    /\ call[gen - 1].result.success
    /\ call[gen].pc = "done"
    /\ call[gen].result.success
    /\ imageUrl = call[gen].result.url

\* C2: the promise of loadImage never rejects, and a call that returns
\* without a url returns success = false with a non-empty error string.
C2_NeverThrows ==
    \A i \in CallIds :
        /\ call[i].pc # "rejected"
        /\ call[i].thrown = Undefined
        /\ call[i].pc = "returned" =>
              \/ call[i].result.success
              \/ /\ call[i].result.url = 0
                 /\ call[i].result.error \notin {Undefined, <<>>}

\* both attempts failed while the body was read
C2_Witness ==
    /\ Failed(call[1])
    /\ call[1].resp.fate = "error"
    /\ call[1].errs = <<MsgFetchFailed, MsgFetchFailed>>
    /\ call[1].result.error = MsgFetchFailed

\* C3: a call makes at most 2 requests; a call whose first attempt fails
\* for a reason other than HTTP 404 or a text/html content type makes a
\* second request; a call answered with HTTP 500 returns a Failure after
\* exactly 2 requests.
C3_RetriedOnce ==
    \A i \in CallIds :
        LET c == call[i]
        IN /\ c.requests <= 2
           /\ (Failed(c) /\ c.requests = 1) =>
                 (c.resp # NoResp /\ DefinitiveResponse(c.resp))
           /\ (c.pc = "returned" /\ c.resp.status = 500) =>
                 (~c.result.success /\ c.requests = 2)

\* C4: a first attempt that ends with HTTP 404 or with a text/html
\* response ends the call with a Failure after one request and no backoff,
\* and a first-attempt failure ends the call only in those two cases.
C4_DefinitiveOnly ==
    \A i \in CallIds :
        LET c == call[i]
        IN /\ (c.attempt = 1 /\ c.resp # NoResp /\ DefinitiveResponse(c.resp))
                 => (Failed(c) /\ c.requests = 1 /\ c.sleeps = 0)
           /\ (Failed(c) /\ c.attempt = 1 /\ c.errs # <<>>)
                 => (c.resp # NoResp /\ DefinitiveResponse(c.resp))

\* C5: an attempt (request and body) is never in progress for longer than
\* IMAGE_LOAD_TIMEOUT.
C5_AttemptWithinTimeout ==
    \A i \in CallIds :
        InProgress(call[i]) => call[i].elapsed <= IMAGE_LOAD_TIMEOUT

\* C6: a call with null, "" or a whitespace-only path has returned the
\* Failure "No image path provided" when loadImage yields, with no request
\* made, no timer armed and no backoff.
C6_BlankPath ==
    \A i \in CallIds :
        LET c == call[i]
        IN (c.pc \notin {"none", "done"} /\ Blank(c.arg)) =>
              /\ c.pc = "returned"
              /\ c.result = [success |-> FALSE, url |-> 0, error |-> MsgNoPath]
              /\ c.requests = 0
              /\ c.sleeps = 0
              /\ Armed(c) = {}

C6_Witness ==
    /\ call[1].arg = <<" ">>
    /\ call[1].pc = "returned"
    /\ call[1].result.error = MsgNoPath

\* C7: a second request starts no earlier than 500 ms after the failure of
\* the first attempt, and when the first attempt timed out and the second
\* received 200, an image content type and a non-empty body, the call
\* returns Success after exactly two requests.
C7_RetryAfterTimeout ==
    \A i \in CallIds :
        LET c == call[i]
        IN /\ c.requests >= 2 => c.backoff >= 500
           /\ (/\ c.attempt = 2
               /\ c.errs = <<MsgAborted>>
               /\ GoodImage(c.resp)
               /\ c.pc # "blob")
              => /\ c.pc = "returned"
                 /\ c.result.success
                 /\ c.requests = 2
                 /\ c.result.url \in 1..Len(urls)
                 /\ urls[c.result.url].blob = c.resp.body

C7_Witness ==
    /\ call[1].pc = "returned"
    /\ call[1].result.success
    /\ call[1].errs = <<MsgAborted>>
    /\ call[1].requests = 2
    /\ call[1].backoff = 500

\* C8: a Failure returned after all attempts carries the reason of the
\* last attempt.
C8_LastReason ==
    \A i \in CallIds :
        LET c == call[i]
        IN (Failed(c) /\ c.requests = IMAGE_RETRY_ATTEMPTS) =>
              /\ Len(c.errs) = IMAGE_RETRY_ATTEMPTS
              /\ c.result.error = c.errs[IMAGE_RETRY_ATTEMPTS]

\* attempt 1 failed with HTTP 500, attempt 2 with an empty body
C8_Witness ==
    /\ Failed(call[1])
    /\ call[1].errs = << <<"H", "T", "T", "P", " ", "5", "0", "0", ":", " ">>,
                         MsgEmpty >>
    /\ call[1].result.error = MsgEmpty

\* C9: the reason of an attempt that received a response is that of the
\* first failing check, in the order status, content type, body size.
C9_CheckOrder ==
    \A i \in CallIds :
        LET c == call[i]
            r == c.resp
        IN r # NoResp =>
              /\ ~Is2xx(r) =>
                    /\ Len(c.errs) = c.attempt
                    /\ c.errs[c.attempt] =
                          <<"H", "T", "T", "P", " ">> \o Digits(r.status)
                              \o <<":", " ">> \o r.statusText
              /\ (Is2xx(r) /\ r.contentType = TextHtml) =>
                    /\ Len(c.errs) = c.attempt
                    /\ c.errs[c.attempt] = MsgHtml
              /\ (Is2xx(r) /\ r.contentType # TextHtml /\ c.pc # "blob"
                    /\ r.fate = "ok" /\ r.body = 0) =>
                    /\ Len(c.errs) = c.attempt
                    /\ c.errs[c.attempt] = MsgEmpty

\* a 404 with a text/html content type was reported as the HTTP error
C9_Witness ==
    /\ Failed(call[1])
    /\ call[1].resp.status = 404
    /\ call[1].resp.contentType = TextHtml
    /\ call[1].result.error =
          <<"H", "T", "T", "P", " ", "4", "0", "4", ":", " ",
            "N", "o", "t", " ", "F", "o", "u", "n", "d">>

\* a 200 text/html response with an empty body was reported as HTML
C9_WitnessHtml ==
    /\ Failed(call[1])
    /\ Is2xx(call[1].resp)
    /\ call[1].resp.contentType = TextHtml
    /\ call[1].resp.body = 0
    /\ call[1].result.error = MsgHtml

\* C10: a call never returns Success for an empty body, and when every
\* attempt received 200, image/png and an empty body it returns the Failure
\* "Empty response received".
C10_EmptyBody ==
    \A i \in CallIds :
        LET c == call[i]
        IN /\ (c.pc = "returned" /\ c.result.success) =>
                 /\ c.resp.body > 0
                 /\ urls[c.result.url].blob > 0
           /\ (/\ c.attempt = IMAGE_RETRY_ATTEMPTS
               /\ c.errs[1] = MsgEmpty
               /\ EmptyImage(c.resp)
               /\ c.pc # "blob")
              => /\ Failed(c)
                 /\ c.result.error = MsgEmpty

C10_Witness ==
    /\ Failed(call[1])
    /\ call[1].errs = <<MsgEmpty, MsgEmpty>>
    /\ EmptyImage(call[1].resp)
    /\ call[1].result.error = MsgEmpty

\* C11: when the first attempt has received 200, image/png and a non-empty
\* body, the call has returned Success with an object URL of exactly that
\* body, after one request and no backoff.
C11_FirstAttemptSuccess ==
    \A i \in CallIds :
        LET c == call[i]
        IN (c.attempt = 1 /\ GoodImage(c.resp) /\ c.pc \notin {"blob", "done"})
              => /\ c.pc = "returned"
                 /\ c.result.success
                 /\ c.result.error = Undefined
                 /\ c.result.url \in 1..Len(urls)
                 /\ urls[c.result.url].blob = c.resp.body
                 /\ urls[c.result.url].revoked = 0
                 /\ c.requests = 1
                 /\ c.sleeps = 0
                 /\ c.errs = <<>>

C11_Witness ==
    /\ call[1].pc = "returned"
    /\ call[1].attempt = 1
    /\ GoodImage(call[1].resp)
    /\ call[1].result.success
    /\ call[1].requests = 1

\* C12: a returned result has exactly one of url and error: Success has a
\* live object URL and no error, Failure has a non-empty error and no url;
\* object URLs exist only for calls that returned Success, so a call that
\* returns Failure has allocated none.
C12_UrlXorError ==
    /\ \A i \in CallIds :
           call[i].pc = "returned" =>
               LET res == call[i].result
               IN IF res.success
                  THEN res.url \in 1..Len(urls) /\ res.error = Undefined
                  ELSE res.url = 0 /\ res.error \notin {Undefined, Null, <<>>}
    /\ \A u \in 1..Len(urls) :
           \E i \in CallIds :
               /\ call[i].pc = "returned"
               /\ call[i].result.success
               /\ call[i].result.url = u
    /\ \A i \in CallIds : Failed(call[i]) => urls = <<>>

\* a Failure returned after a body was read (an empty one, twice)
C12_Witness ==
    /\ Failed(call[1])
    /\ call[1].requests = 2
    /\ EmptyImage(call[1].resp)
    /\ call[1].result.url = 0
    /\ call[1].result.error = MsgEmpty
    /\ urls = <<>>

\* C13: every request of a call goes to {BASE_URL}/image-proxy/ followed
\* by the path without its first character when that is '/', and by the
\* whole path otherwise; so "/" + p and p (p not starting with '/') are
\* requested at the same URL, and "//a" is requested as ".../image-proxy//a".
C13_OneLeadingSlash ==
    \A i \in CallIds :
        LET c == call[i]
            rest == IF c.arg[1] = "/" THEN Tail(c.arg) ELSE c.arg
        IN c.requests >= 1 =>
              c.requested = {<<"/", "a", "p", "i", "/", "i", "m", "a", "g",
                               "e", "-", "p", "r", "o", "x", "y", "/">>
                             \o rest}

\* both requests of a call for "//a" went to /api/image-proxy//a
C13_Witness ==
    /\ call[1].arg = <<"/", "/", "a">>
    /\ call[1].requests = 2
    /\ call[1].requested = {BASE_URL \o ImageProxy \o <<"/", "a">>}

\* a call for "/a" requested what a call for "a" requests
C13_WitnessSlash ==
    /\ call[1].arg = <<"/", "a">>
    /\ call[1].requests = 2
    /\ call[1].requested = {ProxiedUrl(<<"a">>)}

PathChanged == mounted = "yes" /\ gen' = gen + 1

\* what every change of imagePath does, whatever the new path is
ChangeReleasesAndResets ==
    /\ imagePath' # imagePath
    /\ effects[gen].currentUrl # 0 =>
           urls'[effects[gen].currentUrl].revoked =
               urls[effects[gen].currentUrl].revoked + 1
    /\ imageUrl' = 0
    /\ renderFailed' = FALSE
    /\ \A u \in 1..Len(urls') : u # effects[gen].currentUrl => urls'[u] = urls[u]

\* a load for the new path has been started and the skeleton is shown
LoadStarted ==
    /\ isLoading'
    /\ error' = Null
    /\ call[gen'].pc = "none"
    /\ call'[gen'].pc # "none"
    /\ call'[gen'].arg = imagePath'

\* C15 as stated: every change of imagePath releases the handle of the
\* previous path, drops the previous image, error and render-failure flag,
\* enters Idle/Loading and starts a load for the new path.
C15_EveryChangeStartsLoad ==
    [][PathChanged => (ChangeReleasesAndResets /\ LoadStarted)]_vars

\* C15, amended: every change of imagePath releases the handle of the
\* previous path and drops the previous image and render-failure flag; a
\* change to a non-empty path drops the error, enters Idle/Loading and
\* starts a load for the new path, while a change to null or '' goes
\* straight to the error 'No image provided' without loading and without
\* starting a load.
C15_ChangeResets ==
    [][PathChanged =>
          /\ ChangeReleasesAndResets
          /\ IF Falsy(imagePath')
             THEN ~isLoading' /\ error' = MsgNoImage /\ call' = call
             ELSE LoadStarted]_vars

\* the path has changed while an image was displayed: its URL is revoked
\* and the load for the new path is in flight
C15_Witness ==
    /\ mounted = "yes"
    /\ gen >= 2
    /\ effects[gen - 1].currentUrl # 0
    /\ urls[effects[gen - 1].currentUrl].revoked = 1
    /\ imageUrl = 0
    /\ isLoading
    /\ call[gen].pc = "fetch"

\* the path has changed to null while an image was displayed
C15_WitnessNull ==
    /\ mounted = "yes"
    /\ gen >= 2
    /\ effects[gen - 1].currentUrl # 0
    /\ urls[effects[gen - 1].currentUrl].revoked = 1
    /\ imagePath = Null
    /\ ~isLoading
    /\ call[gen].pc = "none"

\* the handle the mounted component holds: the URL it displays or the one
\* its cleanup will revoke
HoldsHandle == imageUrl # 0 \/ effects[gen].currentUrl # 0

\* C16 as stated: in Idle/Loading and in Errored the component holds no
\* resource handle; it holds one only in Loaded, and none after a render
\* failure has taken it from Loaded to Errored.
C16_HandleOnlyInLoaded ==
    mounted = "yes" => (HoldsHandle => View = "img")

\* C16, amended: in Idle/Loading the component holds no handle, and in
\* Errored after a failed load or an empty path it holds none; the URL of a
\* successful load is held, not revoked, from the moment it is stored
\* until the path changes or the component is removed, so it is held in
\* Loaded and still held in Errored after a render failure or after an
\* onLoad that threw.
C16_HandleUntilCleanup ==
    mounted = "yes" =>
        /\ imageUrl = effects[gen].currentUrl
        /\ isLoading => ~HoldsHandle
        /\ (Falsy(imagePath)
              \/ (call[gen].pc = "done" /\ ~call[gen].result.success))
               => ~HoldsHandle
        /\ HoldsHandle =>
               /\ imageUrl \in 1..Len(urls)
               /\ urls[imageUrl].revoked = 0
               /\ call[gen].pc = "done"
               /\ call[gen].result.success
               /\ call[gen].result.url = imageUrl
        /\ renderFailed => (HoldsHandle /\ View = "error")
        /\ (View = "error" /\ HoldsHandle) =>
               (renderFailed \/ effects[gen].threw)

\* Errored after a render failure, with the URL still held and live
C16_Witness ==
    /\ mounted = "yes"
    /\ renderFailed
    /\ View = "error"
    /\ error = Null
    /\ imageUrl # 0
    /\ urls[imageUrl].revoked = 0

\* the calls of the callback cb that the effect run e and its load made
Notified(cb, e) ==
    {n \in 1..Len(notified) : notified[n].cb = cb /\ notified[n].effect = e}

\* C17: with imagePath null or '' the component is Errored, the reason
\* shown and the reason passed to onError are both 'No image path
\* provided', and no load and so no request was started.
C17_NoPathReason ==
    (mounted = "yes" /\ Falsy(imagePath)) =>
        /\ View = "error"
        /\ error = MsgNoPath
        /\ \E n \in Notified("onError", gen) : notified[n].arg = MsgNoPath
        /\ call[gen].pc = "none"

\* what does hold for a null or empty path: the box shows 'No image
\* provided', onError received 'No image path', nothing was requested
C17_AsCoded ==
    (mounted = "yes" /\ Falsy(imagePath)) =>
        /\ View = "error"
        /\ error = MsgNoImage
        /\ \A n \in Notified("onError", gen) : notified[n].arg = MsgNoImagePath
        /\ Cardinality(Notified("onError", gen)) = 1
        /\ call[gen] = NoCall

\* the state the result of the load of the current path calls for
ResultShown ==
    LET res == call[gen].result
    IN /\ ~isLoading
       /\ IF res.success
          THEN imageUrl = res.url /\ error = Null
          ELSE imageUrl = 0 /\ error = res.error

\* C18: the state after a load does not depend on the callbacks: when the
\* callback called for the result has thrown, the component is Loaded with
\* the URL after a Success and Errored with the loader's reason after a
\* Failure.
C18_CallbackThrowIgnored ==
    (mounted = "yes" /\ call[gen].pc = "done" /\ effects[gen].threw)
        => ResultShown

\* C19: when the load of the current path has returned Failure the
\* component is Errored, shows the loader's reason unchanged and has
\* called onError exactly once, with that reason.
C19_FailureShown ==
    (mounted = "yes" /\ call[gen].pc = "done" /\ ~call[gen].result.success)
        => /\ View = "error"
           /\ imageUrl = 0
           /\ error = call[gen].result.error
           /\ Cardinality(Notified("onError", gen)) = 1
           /\ \A n \in Notified("onError", gen) :
                  notified[n].arg = call[gen].result.error
           /\ Notified("onLoad", gen) = {}

\* C19 holds for the loads whose onError returned
C19_WhenCallbackReturns ==
    mounted = "yes" => (effects[gen].threw \/ C19_FailureShown)

\* C20: when the load of the current path has returned Success the
\* component has stored the URL, is Loaded (not loading, no error) and has
\* called onLoad exactly once.
C20_SuccessShown ==
    (mounted = "yes" /\ call[gen].pc = "done" /\ call[gen].result.success)
        => /\ imageUrl = call[gen].result.url
           /\ effects[gen].currentUrl = call[gen].result.url
           /\ ~isLoading
           /\ error = Null
           /\ Cardinality(Notified("onLoad", gen)) = 1
           /\ Notified("onError", gen) = {}

\* C20 holds for the loads whose onLoad returned
C20_WhenCallbackReturns ==
    mounted = "yes" => (effects[gen].threw \/ C20_SuccessShown)

\* the object URLs that were made and are not revoked
LiveHandles == {u \in 1..Len(urls) : urls[u].revoked = 0}

\* C21 as stated: at every moment at most one object URL obtained by the
\* loads of the component is live, those of superseded loads included.
C21_OneLiveHandle == Cardinality(LiveHandles) <= 1

\* C21, amended: at every moment at most one live object URL is held by the
\* component (it is the currentUrl of its last effect while it is mounted);
\* every other live URL is the result of a load that has returned and
\* whose result loadImg has not received yet.
C21_OneHeldHandle ==
    \A u \in LiveHandles :
        \/ mounted = "yes" /\ effects[gen].currentUrl = u /\ imageUrl = u
        \/ \E e \in CallIds :
               call[e].pc = "returned" /\ call[e].result.url = u

\* the URL of the current path is displayed while the URL a superseded
\* load has just returned is still live
C21_Witness ==
    /\ mounted = "yes"
    /\ imageUrl # 0
    /\ urls[imageUrl].revoked = 0
    /\ \E e \in 1..(gen - 1) :
           /\ call[e].pc = "returned"
           /\ call[e].result.success
           /\ urls[call[e].result.url].revoked = 0
           /\ call[e].result.url # imageUrl

\* the state values the component renders from
shown == <<imageUrl, isLoading, error, renderFailed>>

\* C22: a render error of the displayed image takes the component from
\* Loaded to Errored with the text 'Image failed to render' and changes
\* nothing else; from then on, until the path changes or the component is
\* removed, no step (a further render error included) changes what is
\* shown.
C22_RenderFailureOnce ==
    [][/\ (mounted = "yes" /\ View = "img" /\ renderFailed') =>
              /\ View' = "error"
              /\ Caption' = MsgRender
              /\ UNCHANGED <<imageUrl, isLoading, error, urls, notified>>
       /\ (mounted = "yes" /\ renderFailed /\ mounted' = "yes" /\ gen' = gen) =>
              /\ UNCHANGED shown
              /\ View' = "error"
              /\ Caption' = MsgRender]_vars

\* Errored with the text 'Image failed to render' after a successful load
C22_Witness ==
    /\ mounted = "yes"
    /\ call[gen].pc = "done"
    /\ call[gen].result.success
    /\ renderFailed
    /\ View = "error"
    /\ Caption = MsgRender

\* the component is removed
Removed == mounted = "yes" /\ mounted' = "gone"

\* C23: when the component is removed while its last effect holds an
\* object URL (displayed, or kept after a render failure), that URL is
\* revoked in the same step.
C23_UnmountReleases ==
    [][(Removed /\ effects[gen].currentUrl # 0) =>
          /\ urls'[effects[gen].currentUrl].revoked = 1
          /\ ~effects'[gen].isMounted]_vars

\* removed after a render failure, and the URL kept until then is revoked
C23_Witness ==
    /\ mounted = "gone"
    /\ renderFailed
    /\ imageUrl # 0
    /\ effects[gen].currentUrl = imageUrl
    /\ urls[imageUrl].revoked = 1

\* C24: the component can be removed in every state it can be in, and when
\* its last effect holds no object URL (empty path, failed load, load in
\* flight, or the URL of an earlier path already revoked by the path
\* change) the removal revokes nothing: no URL is revoked a second time.
C24_TeardownSafe ==
    /\ [](mounted = "yes" => ENABLED Unmount)
    /\ [][(Removed /\ gen' = gen /\ effects[gen].currentUrl = 0) =>
              urls' = urls]_vars
    /\ [](\A u \in 1..Len(urls) : urls[u].revoked <= 1)

\* removed after a path change has revoked the URL of the first path,
\* while the second load was in flight
C24_Witness ==
    /\ mounted = "gone"
    /\ gen = 2
    /\ effects[1].currentUrl # 0
    /\ urls[effects[1].currentUrl].revoked = 1
    /\ effects[2].currentUrl = 0
    /\ effects[2].cleanup
    /\ ~effects[2].isMounted
    /\ call[2].pc = "fetch"

\* removed with an empty path: no cleanup was registered
C24_WitnessEmpty ==
    /\ mounted = "gone"
    /\ imagePath = <<>>
    /\ ~effects[gen].cleanup
    /\ ~effects[gen].threw

\* C25: with timers that fire, every call of loadImage returns in the end,
\* whatever the transport does.
C25_EventuallyReturns ==
    [](call[1].pc # "none" => <>(call[1].pc = "returned"))

\* what does hold: the wait for the head of a response always ends
C25_FetchEnds ==
    [](call[1].pc = "fetch" => <>(call[1].pc # "fetch"))

\* every load the component started has returned and loadImg has taken
\* its result
AllLoadsTaken == \A e \in CallIds : call[e].pc \in {"none", "done"}

\* C26: no object URL is revoked twice, and once the component is removed
\* and every load it started has returned its result to loadImg, every
\* object URL those loads made is revoked: exactly once each.
C26_ReleasedExactlyOnce ==
    /\ \A u \in 1..Len(urls) : urls[u].revoked <= 1
    /\ (mounted = "gone" /\ AllLoadsTaken) =>
           \A u \in 1..Len(urls) : urls[u].revoked = 1

\* removed, with one URL revoked by the cleanup and another one revoked
\* because its load returned after it was superseded or after the removal
C26_Witness ==
    /\ mounted = "gone"
    /\ AllLoadsTaken
    /\ Len(urls) >= 2
    /\ \A u \in 1..Len(urls) : urls[u].revoked = 1
    /\ \E e \in CallIds : effects[e].discarded /\ call[e].result.success
    /\ \E e \in CallIds : effects[e].currentUrl # 0

\* the calls of onLoad and onError made for the load of the effect run e
Callbacks(e) == Notified("onLoad", e) \cup Notified("onError", e)

\* a result that arrived after the path changed or the component was
\* removed has called neither callback
StaleSilent == \A e \in CallIds : effects[e].discarded => Callbacks(e) = {}

\* the load of the effect run e was received in time and called exactly
\* one callback, once
OneCallback(e) ==
    (call[e].pc = "done" /\ ~effects[e].discarded) =>
        Cardinality(Callbacks(e)) = 1

\* C27: a result that arrives after the path has changed or the component
\* was removed calls neither onLoad nor onError, and a load that was not
\* superseded calls exactly one of them, once.
C27_OneCallbackPerLoad ==
    StaleSilent /\ \A e \in CallIds : OneCallback(e)

\* what does hold: stale results are silent, and the loads whose callback
\* returned have called exactly one
C27_WhenCallbackReturns ==
    StaleSilent /\ \A e \in CallIds : effects[e].threw \/ OneCallback(e)

\* C28: whenever the mounted component renders the img element, the
\* object URL it renders exists and has not been revoked.
C28_DisplayedHandleLive ==
    (mounted = "yes" /\ View = "img") =>
        /\ imageUrl \in 1..Len(urls)
        /\ urls[imageUrl].revoked = 0

\* the image of a later path is displayed after the URL of an earlier
\* path was revoked
C28_Witness ==
    /\ mounted = "yes"
    /\ View = "img"
    /\ urls[imageUrl].revoked = 0
    /\ \E u \in 1..Len(urls) : urls[u].revoked = 1

\* the component stays mounted and its imagePath is the same
SamePath == mounted = "yes" /\ mounted' = "yes" /\ gen' = gen

\* C30: while the component is mounted and imagePath does not change, what
\* it renders only goes from the skeleton to the image or to the error
\* box, or from the image to the error box: never from the error box to
\* anything else, never back to the skeleton; and no load is started.
C30_OnlyForward ==
    [][SamePath =>
          /\ \/ View' = View
             \/ View = "skeleton" /\ View' \in {"img", "error"}
             \/ View = "img" /\ View' = "error"
          /\ isLoading' => isLoading
          /\ \A e \in CallIds : call[e].pc = "none" => call'[e].pc = "none"
          /\ imagePath' = imagePath]_vars

\* the load of the current path has failed and the component has stayed
\* Errored although the load of an earlier path succeeded afterwards
C30_Witness ==
    /\ mounted = "yes"
    /\ gen >= 2
    /\ call[gen].pc = "done"
    /\ ~call[gen].result.success
    /\ View = "error"
    /\ effects[gen - 1].discarded
    /\ call[gen - 1].result.success
    /\ urls[call[gen - 1].result.url].revoked = 1

\* the component is mounted with a non-empty path and shows the skeleton
Loading == mounted = "yes" /\ ~Falsy(imagePath) /\ isLoading

\* C29: a component that stays mounted with a non-empty imagePath leaves
\* Idle/Loading in the end, whatever the transport does.
C29_LeavesLoading ==
    [](Loading => <>(~isLoading \/ mounted # "yes"))

\* what does hold: it leaves Idle/Loading unless its load waits for a body
C29_UnlessBodyPending ==
    [](Loading => <>(~isLoading \/ mounted # "yes" \/ call[1].pc = "blob"))

====
